---------------------------- MODULE Spec2Model ----------------------------
(***************************************************************************)
(* A model of the PiControl Hub driver API (pi_control_hub_driver_api):    *)
(* the DeviceDriver command lookup, the DeviceDriverDescriptor's derived   *)
(* properties and process-wide configuration path, and the discovery of    *)
(* installed drivers.  The hub is the caller: every action is one call of  *)
(* the hub into the API, and the variables `call' and `outcome' record the *)
(* call made last and what it returned or raised.                          *)
(***************************************************************************)
EXTENDS Integers, Sequences, FiniteSets, TLC

VARIABLES
    variant,                \* which DeviceDriver class the driver derives from
    device_info,            \* DeviceDriver._device_info
    hist_constructed_with,  \* history: the DeviceInfo given to DeviceDriver.__init__
    commands,               \* what the concrete driver's get_commands() returns
    authentication_method,  \* the concrete descriptors' authentication_method
    _config_path,           \* DeviceDriverDescriptor._config_path (class attribute)
    hist_first_set,         \* history: argument of the first set_config_path call
    hist_last_set,          \* history: argument of the latest set_config_path call
    working_set,            \* pkg_resources.working_set
    factory_calls,          \* the entry points the last discovery called, in order
    call,                   \* the call the hub made last
    outcome                 \* what that call returned or raised

vars == <<variant, device_info, hist_constructed_with, commands, authentication_method, _config_path,
          hist_first_set, hist_last_set, working_set, factory_calls, call, outcome>>

driverVars == <<variant, device_info, hist_constructed_with, commands>>
descriptorVars == <<authentication_method, _config_path, hist_first_set, hist_last_set>>
registryVars == <<working_set, factory_calls>>

-----------------------------------------------------------------------------
(* Bounds of the model. *)

MaxCommands == 2        \* longest command list a driver returns
MaxCmdId == 2           \* command ids are 0 .. MaxCmdId
MaxPackages == 2        \* most packages in the working set

-----------------------------------------------------------------------------
(* Python values and outcomes. *)

None == "None"

Return(v) == [kind |-> "return", value |-> v]
Raise(e) == [kind |-> "raise", exc |-> e]

\* The classes of the errors the modelled code can raise, each with its base.
ExceptionBase ==
    [ Exception                |-> "BaseException",
      TypeError                |-> "Exception",
      AttributeError           |-> "Exception",
      ImportError              |-> "Exception",
      RuntimeError             |-> "Exception",
      LookupError              |-> "Exception",
      KeyError                 |-> "LookupError",
      DeviceDriverException    |-> "Exception",
      DeviceNotFoundException  |-> "DeviceDriverException",
      CommandNotFoundException |-> "DeviceDriverException",
      DeviceCommandException   |-> "DeviceDriverException" ]

RECURSIVE IsSubclass(_, _)
IsSubclass(cls, base) ==
    IF cls = base THEN TRUE
    ELSE IF cls \in DOMAIN ExceptionBase THEN IsSubclass(ExceptionBase[cls], base)
    ELSE FALSE

\* An exception object: its class, and the message and cause that
\* DeviceDriverException.__init__ stores (None for the built-in errors).
Exc(type, message, cause) == [type |-> type, message |-> message, cause |-> cause]
BuiltinError(type) == Exc(type, None, None)

\* obj.attr: the attribute's value, or AttributeError when obj has none.
GetAttr(obj, attr) ==
    IF attr \in DOMAIN obj THEN Return(obj[attr])
    ELSE Raise(BuiltinError("AttributeError"))

\* A str object: it has neither a name nor a device_id attribute.
PyStr(s) == [pytype |-> "str", value |-> s]

\* str(n) of an int.
Digit(d) == CASE d = 0 -> "0" [] d = 1 -> "1" [] d = 2 -> "2" [] d = 3 -> "3"
              [] d = 4 -> "4" [] d = 5 -> "5" [] d = 6 -> "6" [] d = 7 -> "7"
              [] d = 8 -> "8" [] d = 9 -> "9"
RECURSIVE NatStr(_)
NatStr(n) == IF n < 10 THEN Digit(n) ELSE NatStr(n \div 10) \o Digit(n % 10)
IntStr(n) == IF n < 0 THEN "-" \o NatStr(-n) ELSE NatStr(n)

-----------------------------------------------------------------------------
(* DeviceCommand, DeviceInfo. *)

CmdIds == 0 .. MaxCmdId
Titles == {"Power", "Mute"}

\* DeviceCommand(cmd_id, title, icon); the icon is an opaque blob.
DeviceCommand(cmd_id, title) == [id |-> cmd_id, title |-> title, icon |-> "png"]
DeviceCommands == {DeviceCommand(i, t) : i \in CmdIds, t \in Titles}

DeviceInfo(name, device_id) == [name |-> name, device_id |-> device_id]
DeviceInfos == {DeviceInfo(n, i) : n \in {"TV", "Receiver"}, i \in {"dev-1", "dev-2"}}

RECURSIVE SeqsUpTo(_, _)
SeqsUpTo(S, n) ==
    IF n = 0 THEN {<<>>}
    ELSE LET shorter == SeqsUpTo(S, n - 1)
         IN  shorter \cup {Append(s, x) : s \in {t \in shorter : Len(t) = n - 1}, x \in S}

CommandLists == SeqsUpTo(DeviceCommands, MaxCommands)

-----------------------------------------------------------------------------
(* The error classes. *)

DeviceDriverException(message, cause) == Exc("DeviceDriverException", message, cause)

\* A __str__ that gives the class name in place of the stored message.
ExcStr_class_name(e) == e.type

\* DeviceDriverException.__str__
ExcStr(e) == e.message

\* CommandNotFoundException(device_driver_name, command_id) of the package:
\* the first argument is the driver's name, a str.
CommandNotFoundException_package(device_driver_name, command_id) ==
    Return(Exc("CommandNotFoundException",
               "The device '" \o device_driver_name.value
                   \o "' has no command with id '" \o IntStr(command_id) \o "'",
               None))

\* CommandNotFoundException(device_driver, command_id) of exceptions.py: the first
\* argument is read as a DeviceDriver (its name and device_id).
CommandNotFoundException_module(device_driver, command_id) ==
    LET n == GetAttr(device_driver, "name")
        d == GetAttr(device_driver, "device_id")
    IN  IF n.kind = "raise" THEN n
        ELSE IF d.kind = "raise" THEN d
        ELSE Return(Exc("CommandNotFoundException",
                        "The device '" \o n.value \o "' (id = " \o d.value
                            \o ") has no command with id '" \o IntStr(command_id) \o "'",
                        None))

\* The class that `CommandNotFoundException' names in each DeviceDriver module.
Variants == {"package", "module"}
NewCommandNotFoundException(v, arg, command_id) ==
    IF v = "package" THEN CommandNotFoundException_package(arg, command_id)
    ELSE CommandNotFoundException_module(arg, command_id)

\* DeviceNotFoundException(device_id), of the package only.
DeviceNotFoundException(dev_id) ==
    Exc("DeviceNotFoundException", "Device with ID '" \o dev_id \o "' not found.", None)

\* The None object, a DeviceDriver object as the error classes read it, and the
\* truth value that `if x:' takes of an object.
PyNone == [pytype |-> "NoneType"]
PyDriver(info) == [pytype |-> "DeviceDriver", name |-> info.name,
                   device_id |-> info.device_id]
Truthy(obj) ==
    CASE obj.pytype = "NoneType" -> FALSE
      [] obj.pytype = "str" -> obj.value /= ""
      [] OTHER -> TRUE

\* The sentence about the command that both forms of the message start with.
CommandPart(command) ==
    "Error while executing the command '" \o command.title
        \o "' (id = " \o IntStr(command.id) \o ")"

\* A constructor that tests the argument the wrong way round.
DeviceCommandException_package_swapped(command, device_driver_name) ==
    IF ~Truthy(device_driver_name)
    THEN Return(Exc("DeviceCommandException",
                    CommandPart(command) \o " for device 'None'.", None))
    ELSE Return(Exc("DeviceCommandException", CommandPart(command) \o ".", None))

\* DeviceCommandException(command, device_driver_name=None) of the package.
DeviceCommandException_package(command, device_driver_name) ==
    IF Truthy(device_driver_name)
    THEN Return(Exc("DeviceCommandException",
                    CommandPart(command) \o " for device '"
                        \o device_driver_name.value \o "'.",
                    None))
    ELSE Return(Exc("DeviceCommandException", CommandPart(command) \o ".", None))

\* DeviceCommandException(command, device_driver=None) of exceptions.py.
DeviceCommandException_module(command, device_driver) ==
    IF Truthy(device_driver)
    THEN LET n == GetAttr(device_driver, "name")
             d == GetAttr(device_driver, "device_id")
         IN  IF n.kind = "raise" THEN n
             ELSE IF d.kind = "raise" THEN d
             ELSE Return(Exc("DeviceCommandException",
                             CommandPart(command) \o " for device '" \o n.value
                                 \o "' (id = " \o d.value \o ").",
                             None))
    ELSE Return(Exc("DeviceCommandException", CommandPart(command) \o ".", None))

\* What a caller can pass as the driver's identity: nothing (None) or, in the
\* package, a name (a str, which may be empty) and, in exceptions.py, a driver.
DriverNames == {"TV", "Receiver", ""}
DriverIdentities(v) ==
    IF v = "package" THEN {PyNone} \cup {PyStr(n) : n \in DriverNames}
    ELSE {PyNone} \cup {PyDriver(i) : i \in DeviceInfos}

\* The messages and causes a driver passes to DeviceDriverException.
Messages == {"device cannot be queried", "connection lost", ""}
Causes == {None, "OSError"}

\* Raising code constructs one of the error classes.
ConstructDeviceDriverException ==
    /\ \E m \in Messages, c \in Causes :
          /\ call' = [op |-> "DeviceDriverException", message |-> m, cause |-> c]
          /\ outcome' = Return(DeviceDriverException(m, c))
    /\ UNCHANGED <<driverVars, descriptorVars, registryVars>>

ConstructDeviceNotFoundException ==
    /\ \E i \in {"dev-1", "dev-2"} :
          /\ call' = [op |-> "DeviceNotFoundException", device_id |-> i]
          /\ outcome' = Return(DeviceNotFoundException(i))
    /\ UNCHANGED <<driverVars, descriptorVars, registryVars>>

ConstructCommandNotFoundException ==
    /\ \E v \in Variants, i \in DeviceInfos, c \in CmdIds :
          /\ call' = [op |-> "CommandNotFoundException", variant |-> v,
                      device_info |-> i, command_id |-> c]
          /\ outcome' = NewCommandNotFoundException(v,
                            IF v = "package" THEN PyStr(i.name) ELSE PyDriver(i), c)
    /\ UNCHANGED <<driverVars, descriptorVars, registryVars>>

ConstructDeviceCommandException ==
    /\ \E v \in Variants, c \in DeviceCommands :
          \E d \in DriverIdentities(v) :
             /\ call' = [op |-> "DeviceCommandException", variant |-> v,
                         command |-> c, device_driver |-> d]
             /\ outcome' = IF v = "package" THEN DeviceCommandException_package(c, d)
                           ELSE DeviceCommandException_module(c, d)
    /\ UNCHANGED <<driverVars, descriptorVars, registryVars>>

ErrorClasses == {"DeviceDriverException", "DeviceNotFoundException",
                 "CommandNotFoundException", "DeviceCommandException"}

\* The handler takes str(e) of the error constructed last.
StrOfError ==
    /\ call.op \in ErrorClasses
    /\ outcome.kind = "return"
    /\ call' = [op |-> "str", constructed_by |-> call, exc |-> outcome.value]
    /\ outcome' = Return(ExcStr(outcome.value))
    /\ UNCHANGED <<driverVars, descriptorVars, registryVars>>

-----------------------------------------------------------------------------
(* DeviceDriver. *)

\* A getter that reads the wrong field of the DeviceInfo.
name_from_id(info) == info.device_id

\* DeviceDriver.name, DeviceDriver.device_id
name(info) == info.name
device_id(info) == info.device_id

\* The abstract get_commands(): a concrete driver returns its commands, or raises
\* DeviceDriverException when the device cannot be queried.
GetCommandsOutcomes(cmds) ==
    { Return(cmds),
      Raise(DeviceDriverException("device cannot be queried", None)) }

\* filter(lambda c: c.id == cmd_id, cmds), as a list
FilterById(cmds, cmd_id) == SelectSeq(cmds, LAMBDA c : c.id = cmd_id)

\* list.count(*args): it takes exactly one argument, the value to count.
ListCount(list, args) ==
    IF Len(args) /= 1 THEN Raise(BuiltinError("TypeError"))
    ELSE Return(Cardinality({i \in DOMAIN list : list[i] = args[1]}))

\* DeviceDriver.get_command(cmd_id); gc is what self.get_commands() does.
get_command(v, info, gc, cmd_id) ==
    IF gc.kind = "raise" THEN gc
    ELSE LET result == FilterById(gc.value, cmd_id)
             count == ListCount(result, <<>>)
         IN  IF count.kind = "raise" THEN count
             ELSE IF count.value > 0 THEN Return(result[1])
             ELSE LET e == NewCommandNotFoundException(v, PyStr(name(info)), cmd_id)
                  IN  IF e.kind = "raise" THEN e ELSE Raise(e.value)

InitDriver ==
    /\ variant \in Variants
    /\ device_info \in DeviceInfos
    /\ hist_constructed_with = device_info
    /\ commands \in CommandLists

\* The hub calls driver.get_commands().
GetCommands ==
    /\ \E gc \in GetCommandsOutcomes(commands) :
          /\ call' = [op |-> "get_commands"]
          /\ outcome' = gc
    /\ UNCHANGED <<driverVars, descriptorVars, registryVars>>

\* The hub calls driver.get_command(cmd_id).
GetCommand ==
    /\ \E cmd_id \in CmdIds \cup {MaxCmdId + 1}, gc \in GetCommandsOutcomes(commands) :
          /\ call' = [op |-> "get_command", cmd_id |-> cmd_id, get_commands |-> gc]
          /\ outcome' = get_command(variant, device_info, gc, cmd_id)
    /\ UNCHANGED <<driverVars, descriptorVars, registryVars>>

\* The hub reads driver.name or driver.device_id.
ReadName ==
    /\ call' = [op |-> "name"]
    /\ outcome' = Return(name(device_info))
    /\ UNCHANGED <<driverVars, descriptorVars, registryVars>>

ReadDeviceId ==
    /\ call' = [op |-> "device_id"]
    /\ outcome' = Return(device_id(device_info))
    /\ UNCHANGED <<driverVars, descriptorVars, registryVars>>

\* The abstract execute(command): a concrete driver performs the command and
\* returns, or raises DeviceCommandException naming itself.
ExecuteOutcomes(v, info, command) ==
    LET e == IF v = "package"
             THEN DeviceCommandException_package(command, PyStr(name(info)))
             ELSE DeviceCommandException_module(command, PyDriver(info))
    IN  {Return(None), IF e.kind = "raise" THEN e ELSE Raise(e.value)}

\* The abstract remote_layout: a grid of command ids, -1 for an empty cell.
RemoteLayouts == [{1} -> [{1} -> CmdIds \cup {-1}]]

\* The hub calls driver.execute(command).
Execute ==
    /\ \E c \in DeviceCommands :
          \E o \in ExecuteOutcomes(variant, device_info, c) :
             /\ call' = [op |-> "execute", command |-> c]
             /\ outcome' = o
    /\ UNCHANGED <<driverVars, descriptorVars, registryVars>>

\* The hub reads driver.is_device_ready.
ReadIsDeviceReady ==
    /\ \E ready \in BOOLEAN :
          /\ call' = [op |-> "is_device_ready"]
          /\ outcome' = Return(ready)
    /\ UNCHANGED <<driverVars, descriptorVars, registryVars>>

\* The hub reads driver.remote_layout_size and driver.remote_layout.
ReadRemoteLayoutSize ==
    /\ call' = [op |-> "remote_layout_size"]
    /\ outcome' = Return(<<1, 1>>)
    /\ UNCHANGED <<driverVars, descriptorVars, registryVars>>

ReadRemoteLayout ==
    /\ \E layout \in RemoteLayouts :
          /\ call' = [op |-> "remote_layout"]
          /\ outcome' = Return(layout)
    /\ UNCHANGED <<driverVars, descriptorVars, registryVars>>

-----------------------------------------------------------------------------
(* DeviceDriverDescriptor. *)

\* The members of the enum AuthenticationMethod, by name.
AuthenticationMethod == {"NONE", "PIN", "PASSWORD", "USER_AND_PASSWORD"}

\* The concrete descriptors of the process, and the classes and instances through
\* which the static config-path methods can be called.
Descriptors == {"tv", "receiver"}
Callers == Descriptors \cup {"DeviceDriverDescriptor"}
ConfigPaths == {"/etc/hub", "/var/hub"}

\* A slip in the comparison: == in place of !=.
requires_authentication_inverted(method) == method = "NONE"

\* DeviceDriverDescriptor.requires_authentication, of a descriptor whose
\* authentication_method is method.
requires_authentication(method) == method /= "NONE"

\* A setter that keeps the first path and ignores every later one.
set_config_path_once(current, config_path) ==
    IF current = None THEN config_path ELSE current

\* DeviceDriverDescriptor.set_config_path(config_path): the new value of the class
\* attribute.  It is a static method: the caller plays no part.
set_config_path(current, config_path) == config_path

\* DeviceDriverDescriptor.get_config_path()
get_config_path(current) == current

InitDescriptor ==
    /\ authentication_method \in [Descriptors -> AuthenticationMethod]
    /\ _config_path = None
    /\ hist_first_set = None
    /\ hist_last_set = None

\* The hub reads descriptor.authentication_method.
ReadAuthenticationMethod ==
    /\ \E d \in Descriptors :
          /\ call' = [op |-> "authentication_method", descriptor |-> d]
          /\ outcome' = Return(authentication_method[d])
    /\ UNCHANGED <<driverVars, descriptorVars, registryVars>>

\* The hub reads descriptor.requires_authentication.
ReadRequiresAuthentication ==
    /\ \E d \in Descriptors :
          /\ call' = [op |-> "requires_authentication", descriptor |-> d]
          /\ outcome' = Return(requires_authentication(authentication_method[d]))
    /\ UNCHANGED <<driverVars, descriptorVars, registryVars>>

\* An assignment descriptor.requires_authentication = v: the property has no
\* setter, so the assignment raises AttributeError and stores nothing.
AssignRequiresAuthentication ==
    /\ \E d \in Descriptors, v \in BOOLEAN :
          /\ call' = [op |-> "assign_requires_authentication", descriptor |-> d,
                      value |-> v]
          /\ outcome' = Raise(BuiltinError("AttributeError"))
    /\ UNCHANGED <<driverVars, descriptorVars, registryVars>>

\* The hub (or a driver) calls set_config_path(config_path) on the class, a
\* subclass or an instance.
SetConfigPath ==
    /\ \E c \in Callers, p \in ConfigPaths :
          /\ call' = [op |-> "set_config_path", caller |-> c, config_path |-> p]
          /\ _config_path' = set_config_path(_config_path, p)
          /\ hist_first_set' = IF hist_first_set = None THEN p ELSE hist_first_set
          /\ hist_last_set' = p
    /\ outcome' = Return(None)
    /\ UNCHANGED <<driverVars, authentication_method, registryVars>>

\* A descriptor (or the hub) calls get_config_path().
GetConfigPath ==
    /\ \E c \in Callers :
          call' = [op |-> "get_config_path", caller |-> c]
    /\ outcome' = Return(get_config_path(_config_path))
    /\ UNCHANGED <<driverVars, descriptorVars, registryVars>>

-----------------------------------------------------------------------------
(* installed_drivers. *)

ApiKey == "pi-control-hub-driver-api"
DefaultPrefix == "pi-control-hub-driver-"
DriverGroup == "pi_control_hub_driver"
DriverEntry == "driver_descriptor"

\* str.startswith
startswith(s, prefix) ==
    /\ Len(prefix) <= Len(s)
    /\ \/ Len(prefix) = 0
       \/ SubSeq(s, 1, Len(prefix)) = prefix

\* d[k] of a dict
DictGet(d, k) ==
    IF k \in DOMAIN d THEN Return(d[k]) ELSE Raise(BuiltinError("KeyError"))

\* An entry point of distribution dist: whether its load() finds the factory, and
\* whether the factory, when called, returns a descriptor.
EntryPoint(group, entry, dist, loadable, works) ==
    [group |-> group, name |-> entry, dist |-> dist, loadable |-> loadable,
     works |-> works]

\* The descriptor that the factory of an entry point returns.
DescriptorOf(ep) == [descriptor_of |-> ep.dist]

\* EntryPoint.load(): the factory, or ImportError.
Load(ep) == IF ep.loadable THEN Return(ep) ELSE Raise(BuiltinError("ImportError"))

\* entry_point(): the factory's descriptor, or the error the factory raises.
CallFactory(ep) ==
    IF ep.works THEN Return(DescriptorOf(ep)) ELSE Raise(BuiltinError("RuntimeError"))

\* The installed packages the model draws from.
PackageKeys == {ApiKey, "pi-control-hub-driver-tv", "pi-control-hub", "setuptools"}
Shapes == {"ok", "no_group", "no_entry", "not_loadable", "factory_raises"}

EntryMap(key, shape) ==
    CASE shape = "ok" ->
           DriverGroup :> (DriverEntry :> EntryPoint(DriverGroup, DriverEntry, key, TRUE, TRUE))
      [] shape = "no_group" ->
           "console_scripts" :> ("run" :> EntryPoint("console_scripts", "run", key, TRUE, TRUE))
      [] shape = "no_entry" ->
           DriverGroup :> ("other" :> EntryPoint(DriverGroup, "other", key, TRUE, TRUE))
      [] shape = "not_loadable" ->
           DriverGroup :> (DriverEntry :> EntryPoint(DriverGroup, DriverEntry, key, FALSE, TRUE))
      [] shape = "factory_raises" ->
           DriverGroup :> (DriverEntry :> EntryPoint(DriverGroup, DriverEntry, key, TRUE, FALSE))

Package(key, shape) == [key |-> key, entry_map |-> EntryMap(key, shape)]
Packages == {Package(k, s) : k \in PackageKeys, s \in Shapes}

\* A working set holds one distribution per key.
WorkingSets ==
    {ws \in SeqsUpTo(Packages, MaxPackages) :
        \A i, j \in DOMAIN ws : ws[i].key = ws[j].key => i = j}

Prefixes == {DefaultPrefix, "", "pi-control-hub-driver-tv", "berry-"}

\* The condition without its second half: the API package counts as a driver.
IsDriverPackage_no_exclusion(package, driver_name_prefix) ==
    startswith(package.key, driver_name_prefix)

\* The condition of the loop body.
IsDriverPackage(package, driver_name_prefix) ==
    startswith(package.key, driver_name_prefix) /\ ~(package.key = ApiKey)

\* The entry point the loop body looks up in a package's entry map.
LookupEntryPoint(entry_map) ==
    LET group == DictGet(entry_map, DriverGroup)
    IN  IF group.kind = "raise" THEN group
        ELSE DictGet(group.value, DriverEntry)

\* installed_drivers(driver_name_prefix), from package i on: the result (the list
\* returned or the error raised) and the factories called on the way.
RECURSIVE InstalledDriversFrom(_, _, _, _, _)
InstalledDriversFrom(ws, driver_name_prefix, i, driver_descriptors, called) ==
    IF i > Len(ws) THEN [result |-> Return(driver_descriptors), called |-> called]
    ELSE IF ~IsDriverPackage(ws[i], driver_name_prefix)
    THEN InstalledDriversFrom(ws, driver_name_prefix, i + 1, driver_descriptors, called)
    ELSE LET entry_point_meta == LookupEntryPoint(ws[i].entry_map)
         IN  IF entry_point_meta.kind = "raise"
             THEN [result |-> entry_point_meta, called |-> called]
             ELSE LET entry_point == Load(entry_point_meta.value)
                  IN  IF entry_point.kind = "raise"
                      THEN [result |-> entry_point, called |-> called]
                      ELSE LET d == CallFactory(entry_point.value)
                               called2 == Append(called, entry_point.value)
                           IN  IF d.kind = "raise"
                               THEN [result |-> d, called |-> called2]
                               ELSE InstalledDriversFrom(ws, driver_name_prefix, i + 1,
                                        Append(driver_descriptors, d.value), called2)

installed_drivers(ws, driver_name_prefix) ==
    InstalledDriversFrom(ws, driver_name_prefix, 1, <<>>, <<>>)

InitRegistry ==
    /\ working_set \in WorkingSets
    /\ factory_calls = <<>>

\* The hub calls installed_drivers(driver_name_prefix).
InstalledDrivers ==
    /\ \E prefix \in Prefixes :
          LET r == installed_drivers(working_set, prefix)
          IN  /\ call' = [op |-> "installed_drivers", driver_name_prefix |-> prefix]
              /\ outcome' = r.result
              /\ factory_calls' = r.called
    /\ UNCHANGED <<driverVars, descriptorVars, working_set>>

-----------------------------------------------------------------------------
(* Specifications: the hub calling into one part of the API at a time. *)

NoCall == [op |-> "none"]

IdleDriver ==
    /\ variant = "package"
    /\ device_info = DeviceInfo("TV", "dev-1")
    /\ hist_constructed_with = device_info
    /\ commands = <<>>

IdleDescriptor ==
    /\ authentication_method = [d \in Descriptors |-> "NONE"]
    /\ _config_path = None
    /\ hist_first_set = None
    /\ hist_last_set = None

IdleRegistry ==
    /\ working_set = <<>>
    /\ factory_calls = <<>>

InitCall ==
    /\ call = NoCall
    /\ outcome = Return(None)

DriverInit == InitDriver /\ IdleDescriptor /\ IdleRegistry /\ InitCall
DriverNext ==
    \/ GetCommands
    \/ GetCommand
    \/ ReadName
    \/ ReadDeviceId
    \/ Execute
    \/ ReadIsDeviceReady
    \/ ReadRemoteLayoutSize
    \/ ReadRemoteLayout
SpecDriver == DriverInit /\ [][DriverNext]_vars

DescriptorInit == IdleDriver /\ InitDescriptor /\ IdleRegistry /\ InitCall
DescriptorNext ==
    \/ ReadAuthenticationMethod
    \/ ReadRequiresAuthentication
    \/ AssignRequiresAuthentication
    \/ SetConfigPath
    \/ GetConfigPath
SpecDescriptor == DescriptorInit /\ [][DescriptorNext]_vars

RegistryInit == IdleDriver /\ IdleDescriptor /\ InitRegistry /\ InitCall
RegistryNext == InstalledDrivers
SpecRegistry == RegistryInit /\ [][RegistryNext]_vars

ExceptionsInit == IdleDriver /\ IdleDescriptor /\ IdleRegistry /\ InitCall
ExceptionsNext ==
    \/ ConstructDeviceDriverException
    \/ ConstructDeviceNotFoundException
    \/ ConstructCommandNotFoundException
    \/ ConstructDeviceCommandException
    \/ StrOfError
SpecExceptions == ExceptionsInit /\ [][ExceptionsNext]_vars

-----------------------------------------------------------------------------
(* Properties of DeviceDriver.get_command. *)

Range(seq) == {seq[i] : i \in DOMAIN seq}

\* The last call was get_command(cmd_id), get_commands() returned its list, and
\* the list holds (found) or does not hold a command with that id.
GetCommandCalled(found) ==
    /\ call.op = "get_command"
    /\ call.get_commands.kind = "return"
    /\ found = (\E c \in Range(call.get_commands.value) : c.id = call.cmd_id)

\* C1: when cmd_id is the id of a command that get_commands() returns,
\* get_command(cmd_id) returns normally, and what it returns is the command of
\* that list whose id is cmd_id.
C1_FoundCommandIsReturned ==
    GetCommandCalled(TRUE) =>
        /\ outcome.kind = "return"
        /\ outcome.value \in Range(call.get_commands.value)
        /\ outcome.value.id = call.cmd_id

\* C2: when cmd_id is the id of no command that get_commands() returns (the list
\* may be empty), get_command(cmd_id) raises CommandNotFoundException, which is a
\* DeviceDriverException, in both variants of the class.
C2_MissingCommandRaisesNotFound ==
    GetCommandCalled(FALSE) =>
        /\ outcome.kind = "raise"
        /\ outcome.exc.type = "CommandNotFoundException"
        /\ IsSubclass(outcome.exc.type, "DeviceDriverException")

-----------------------------------------------------------------------------
(* Properties of DeviceDriverDescriptor. *)

\* C3: every read of requires_authentication gives false when the descriptor's
\* authentication_method is NONE and true when it is PIN, PASSWORD or
\* USER_AND_PASSWORD, and an assignment to the property is refused.
C3_RequiresAuthenticationIsDerived ==
    /\ call.op = "requires_authentication" =>
          LET method == authentication_method[call.descriptor]
          IN  /\ outcome.kind = "return"
              /\ method = "NONE" => outcome.value = FALSE
              /\ method \in {"PIN", "PASSWORD", "USER_AND_PASSWORD"} =>
                    outcome.value = TRUE
    /\ call.op = "assign_requires_authentication" =>
          /\ outcome.kind = "raise"
          /\ outcome.exc.type = "AttributeError"

\* A read of requires_authentication on a descriptor that authenticates by PIN.
C3_Witness ==
    /\ call.op = "requires_authentication"
    /\ authentication_method[call.descriptor] = "PIN"
    /\ authentication_method["tv"] /= authentication_method["receiver"]
    /\ outcome = Return(TRUE)

\* C8, as claimed: once set_config_path(p) has been called, every later
\* get_config_path() returns that first p, whatever calls came in between.
C8_ConfigPathStaysAsFirstSet ==
    (call.op = "get_config_path" /\ hist_first_set /= None) =>
        outcome = Return(hist_first_set)

\* C8, amended: get_config_path(), called through the class, a subclass or any
\* instance, returns the argument of the latest set_config_path call (None before
\* the first); the stored path is that argument after every call, so only
\* set_config_path changes it.
C8_ConfigPathIsLatestSet ==
    /\ _config_path = hist_last_set
    /\ call.op = "get_config_path" => outcome = Return(hist_last_set)

\* A get_config_path() after two set_config_path calls with different paths.
C8_Witness ==
    /\ call.op = "get_config_path"
    /\ hist_first_set /= None
    /\ hist_last_set /= hist_first_set
    /\ outcome = Return(hist_last_set)

-----------------------------------------------------------------------------
(* Properties of installed_drivers. *)

\* key starts with prefix, stated by the length of the common part.
HasPrefix(key, prefix) ==
    \E n \in 0 .. Len(key) :
        /\ Len(prefix) = n
        /\ n > 0 => SubSeq(key, 1, n) = prefix

\* The packages of the working set that the discovery is to load, in order.
DriverPackages(ws, prefix) ==
    SelectSeq(ws, LAMBDA p : HasPrefix(p.key, prefix) /\ p.key /= ApiKey)

\* The package declares the entry point driver_descriptor in the group
\* pi_control_hub_driver, and the entry point loads and returns a descriptor.
WellFormed(package) ==
    /\ DriverGroup \in DOMAIN package.entry_map
    /\ DriverEntry \in DOMAIN package.entry_map[DriverGroup]
    /\ package.entry_map[DriverGroup][DriverEntry].loadable
    /\ package.entry_map[DriverGroup][DriverEntry].works

\* C9: installed_drivers(prefix) returns one descriptor for each package whose key
\* starts with prefix and is not pi-control-hub-driver-api, in working-set order,
\* each got by one call of that package's entry point driver_descriptor of group
\* pi_control_hub_driver; the other packages are never called.  It returns only
\* when each of these packages has such an entry point that loads and runs.
C9_OneDescriptorPerDriverPackage ==
    call.op = "installed_drivers" =>
        LET drivers == DriverPackages(working_set, call.driver_name_prefix)
            allWellFormed == \A i \in DOMAIN drivers : WellFormed(drivers[i])
        IN  /\ outcome.kind = "return" <=> allWellFormed
            /\ allWellFormed =>
                  /\ Len(outcome.value) = Len(drivers)
                  /\ \A i \in DOMAIN drivers :
                        outcome.value[i] = [descriptor_of |-> drivers[i].key]
                  /\ Len(factory_calls) = Len(drivers)
                  /\ \A i \in DOMAIN drivers :
                        factory_calls[i] =
                            drivers[i].entry_map[DriverGroup][DriverEntry]
            /\ \A i \in DOMAIN factory_calls :
                  /\ factory_calls[i].group = DriverGroup
                  /\ factory_calls[i].name = DriverEntry
                  /\ factory_calls[i].dist /= ApiKey
                  /\ HasPrefix(factory_calls[i].dist, call.driver_name_prefix)
                  /\ \A j \in DOMAIN factory_calls :
                        factory_calls[i].dist = factory_calls[j].dist => i = j

\* A discovery with the default prefix over the API package and one driver
\* package, both with a working entry point: only the driver's descriptor comes back.
C9_Witness ==
    /\ call.op = "installed_drivers"
    /\ call.driver_name_prefix = DefaultPrefix
    /\ Len(working_set) = 2
    /\ working_set[1] = Package(ApiKey, "ok")
    /\ working_set[2] = Package("pi-control-hub-driver-tv", "ok")
    /\ outcome = Return(<<[descriptor_of |-> "pi-control-hub-driver-tv"]>>)
    /\ Len(factory_calls) = 1

\* C10: when a package that matches the prefix has no entry point driver_descriptor
\* in the group pi_control_hub_driver, or the entry point cannot be loaded or
\* called, the discovery raises an error of the DeviceDriverException family.
C10_LoadFailureIsDriverError ==
    (/\ call.op = "installed_drivers"
     /\ \E p \in Range(DriverPackages(working_set, call.driver_name_prefix)) :
           ~WellFormed(p)) =>
        /\ outcome.kind = "raise"
        /\ IsSubclass(outcome.exc.type, "DeviceDriverException")

-----------------------------------------------------------------------------
(* Properties of the error classes. *)

\* part occurs in text.
Contains(text, part) ==
    \E i \in 1 .. (Len(text) - Len(part) + 1) :
        SubSeq(text, i, i + Len(part) - 1) = part

\* A DeviceCommandException was constructed last (the call returned it).
CommandErrorBuilt ==
    /\ call.op = "DeviceCommandException"
    /\ outcome.kind = "return"

\* C11, common part: the message of a DeviceCommandException names the command
\* by its title and by its id.
C11_NamesCommand ==
    /\ Contains(outcome.value.message, "command '" \o call.command.title \o "'")
    /\ Contains(outcome.value.message, "(id = " \o IntStr(call.command.id) \o ")")

\* C11, as claimed: the message names the command always, and it names the
\* driver exactly when a driver identity (anything but None) was passed.
C11_DriverNamedIffPassed ==
    CommandErrorBuilt =>
        /\ C11_NamesCommand
        /\ Contains(outcome.value.message, " for device '")
              <=> call.device_driver /= PyNone

\* C11, amended: construction succeeds; the message names the command always; it
\* names the driver exactly when the identity passed is a non-empty name (package)
\* or a driver (exceptions.py), and then holds that name; with None or an empty
\* name it is the sentence about the command alone.
C11_DriverNamedIffNonEmpty ==
    call.op = "DeviceCommandException" =>
        LET d == call.device_driver
            given == d /= PyNone /\ (d.pytype = "str" => d.value /= "")
        IN  /\ outcome.kind = "return"
            /\ C11_NamesCommand
            /\ Contains(outcome.value.message, " for device '") <=> given
            /\ given =>
                  Contains(outcome.value.message,
                           " for device '"
                               \o (IF d.pytype = "str" THEN d.value ELSE d.name) \o "'")
            /\ ~given =>
                  outcome.value.message =
                      "Error while executing the command '" \o call.command.title
                          \o "' (id = " \o IntStr(call.command.id) \o ")."

\* Both cases happen in both variants: an error built with a driver identity and
\* one built without.
C11_Witness ==
    /\ CommandErrorBuilt
    /\ call.variant = "module"
    /\ call.device_driver = PyDriver(DeviceInfo("Receiver", "dev-2"))
    /\ call.command.id = MaxCmdId
    /\ Contains(outcome.value.message, " for device 'Receiver' (id = dev-2).")

-----------------------------------------------------------------------------
(* Properties of the DeviceDriver's identity and failures. *)

\* C12: after any calls of get_commands, get_command, execute, is_device_ready
\* and the layout reads, the driver still holds the DeviceInfo it was constructed
\* with, and its name and device_id are that DeviceInfo's name and device_id.
C12_DriverStaysBound ==
    /\ device_info = hist_constructed_with
    /\ call.op = "name" => outcome = Return(hist_constructed_with.name)
    /\ call.op = "device_id" => outcome = Return(hist_constructed_with.device_id)

\* The name read from a driver constructed for the device "Receiver"/"dev-2"
\* that has commands.
C12_Witness ==
    /\ call.op = "name"
    /\ hist_constructed_with = DeviceInfo("Receiver", "dev-2")
    /\ commands /= <<>>
    /\ outcome = Return("Receiver")

\* C13: whatever get_command raises is a DeviceDriverException: the
\* CommandNotFoundException of a missing id, or the error that get_commands()
\* raised, handed on as it is.
C13_GetCommandFailuresAreDriverErrors ==
    (call.op = "get_command" /\ outcome.kind = "raise") =>
        /\ IsSubclass(outcome.exc.type, "DeviceDriverException")
        /\ \/ call.get_commands.kind = "raise" /\ outcome = call.get_commands
           \/ /\ call.get_commands.kind = "return"
              /\ outcome.exc.type = "CommandNotFoundException"

-----------------------------------------------------------------------------
(* Properties of the error taxonomy. *)

\* One of the four error classes was constructed last (the call returned it).
ErrorBuilt ==
    /\ call.op \in ErrorClasses
    /\ outcome.kind = "return"

\* C14, as claimed: every error of the four classes is a DeviceDriverException
\* with a non-empty message and no cause unless one was passed, and str() gives
\* that message.
C14_MessageAlwaysNonEmpty ==
    /\ ErrorBuilt =>
          /\ IsSubclass(outcome.value.type, "DeviceDriverException")
          /\ outcome.value.message /= ""
          /\ outcome.value.cause /= None =>
                (call.op = "DeviceDriverException" /\ call.cause /= None)
    /\ call.op = "str" => outcome = Return(call.exc.message)

\* C14, amended: every error of the four classes is a DeviceDriverException;
\* str() returns its message unchanged; a DeviceDriverException carries the
\* message and the cause it was given (the message is non-empty when the one given
\* is), and the three subclasses carry a non-empty message built from their
\* arguments and no cause.
C14_MessageAsGiven ==
    /\ ErrorBuilt =>
          LET e == outcome.value
          IN  /\ e.type = call.op
              /\ IsSubclass(e.type, "DeviceDriverException")
              /\ call.op = "DeviceDriverException" =>
                    /\ e.message = call.message
                    /\ e.cause = call.cause
              /\ call.op /= "DeviceDriverException" =>
                    /\ Len(e.message) > 0
                    /\ e.cause = None
    /\ call.op = "str" =>
          /\ outcome = Return(call.exc.message)
          /\ call.constructed_by.op = "DeviceDriverException" =>
                outcome.value = call.constructed_by.message

\* str() of a DeviceDriverException that was built with a message and a cause.
C14_Witness ==
    /\ call.op = "str"
    /\ call.constructed_by.op = "DeviceDriverException"
    /\ call.constructed_by.cause = "OSError"
    /\ call.exc.cause = "OSError"
    /\ outcome = Return("connection lost")

=============================================================================
